---- MODULE Spec2Model ----
(***************************************************************************)
(* Model of the resumable issue-processing pipeline of                     *)
(* claude-code-dispatcher: ProcessingStateManager (the persisted state     *)
(* store), ResumableIssueProcessor (the step state machine), IssueQueue,   *)
(* RateLimitHandler and ProcessingManager (the processing loop).           *)
(*                                                                         *)
(* JavaScript runs one callback at a time; a callback runs until it        *)
(* awaits an external promise.  Every action below is one such run: from   *)
(* the completion of an awaited collaborator call (or a timer, or an API   *)
(* call) up to the next await or the return.                               *)
(***************************************************************************)
EXTENDS Integers, Sequences, FiniteSets, TLC

\* ---------------------------------------------------------------- bounds
NumIssues == 3
\* issues a direct caller of the pipeline passes to it
NumDirectIssues == 1
\* consecutive throttled calls on one issue: made by a direct caller ...
MaxThrottles == 5
\* ... and made by the processing loop
MaxLoopThrottles == 2
MaxChains == 2
\* times the state directory stops accepting writes
MaxOutages == 1
\* the invocation counters of the history stop counting at this value
CountCap == 3
\* issues in one batch passed to IssueQueue.enqueue by a direct caller
MaxBatch == 2
\* entries a direct caller of the queue has pushed onto it in all
MaxArrivals == 4
\* flags and timers already left behind in abandoned components when a
\* stop() interrupts a start() of the orchestrator
MaxStray == 0

\* ------------------------------------------------------ program constants
\* maxRetries, the second argument the handlers pass to withRetry
MaxRetries == 3

Issues == 1..NumIssues
DirectIssues == { i \in Issues : i <= NumDirectIssues }
Chains == 1..MaxChains
\* caller 0 is a direct caller of the pipeline API (as the unit tests are);
\* caller c > 0 is the processNext closure created by the c-th live start()
Direct == 0
Callers == {Direct} \cup Chains

\* enum ProcessingStep, in declaration order
StepOrder == << "BRANCH_CREATION", "IMPLEMENTATION", "CHANGE_DETECTION",
                "COMMIT_PUSH", "PR_CREATION", "COMPLETED" >>
Steps == { StepOrder[k] : k \in 1..6 }
WorkSteps == { StepOrder[k] : k \in 1..5 }
AgentSteps == { "IMPLEMENTATION", "COMMIT_PUSH", "PR_CREATION" }

StepIndex(s) == CHOOSE k \in 1..6 : StepOrder[k] = s

\* Array.prototype.includes
Includes(seq, x) == \E k \in 1..Len(seq) : seq[k] = x

VARIABLES
  store,           \* state directory: issue id -> persisted ProcessingState
  diskOk,          \* FALSE while writes to the state directory fail
  outages,         \* history: number of times the directory has failed
  inv,             \* caller -> pipeline invocation in flight (or idle)
  ret,             \* result returned by the pipeline in this step, if any
  invoked,         \* history: issue -> step -> action invocations made for
                   \*          a direct caller while the issue is being
                   \*          worked on (counted up to CountCap)
  resolved,        \* history: issue -> steps whose action has succeeded
                   \*          for a direct caller since the issue's state
                   \*          was created
  act,             \* history: the action invoked in this step, if any
  throttleRun,     \* history: issue -> consecutive throttled returns
  queue,           \* IssueQueue.queue (issue ids)
  processing,      \* IssueQueue.processing
  isRunning,       \* ProcessingManager.isRunning
  timers,          \* chains whose setTimeout(processNext) is pending
  processingLoop,  \* ProcessingManager.processingLoop (0 = null)
  processedIssues, \* GitHubClient.processedIssues
  arrived,         \* history: issue ids in the order they were enqueued
  started,         \* history: issue whose invocation began in this step
  outcomes,        \* history: issues for which some invocation returned
  cycle,           \* history: what the loop did to the queue and told the
                   \*          tracker client in this step
  trail,           \* history: issue -> what has interrupted the work a
                   \*          direct caller has had done on it: "none", the
                   \*          step of its only pause, or "other" (a second
                   \*          pause, or an attempt that failed and was
                   \*          retried)
  event,           \* history: the pipeline call made in this step, or the
                   \*          way the awaited action settled in this step
  journal,         \* history: the issues for which Success has been
                   \*          returned to a direct caller, recorded in the
                   \*          specifications that keep the journal
  orch             \* DispatcherOrchestrator and the life cycle of the
                   \* components it creates

loopVars == << queue, processing, isRunning, timers, processingLoop,
               processedIssues >>
vars == << store, diskOk, outages, inv, ret, invoked, resolved, act,
           throttleRun, queue, processing, isRunning, timers, processingLoop,
           processedIssues, arrived, started, outcomes, cycle, trail,
           event, journal, orch >>

\* ------------------------------------------------------------ data model
\* interface ProcessingState (issueId is the key of the store)
\* exists: the state file is there; corrupt: its content does not parse (the
\* other fields are then what the file held before it was damaged)
NoState == [ exists |-> FALSE, corrupt |-> FALSE,
             issueId |-> 0, branchName |-> << >>, baseBranch |-> "none",
             currentStep |-> "BRANCH_CREATION",
             completedSteps |-> << >>, retryCount |-> 0 ]

\* the branch the processing loop passes (config.baseBranch), and the
\* branches a direct caller may pass
MainBranch == "main"

BaseBranches == { MainBranch, "develop" }

\* GitRepository.generateBranchName: a name made from the issue
generateBranchName(i) == << "issue", i >>

InitialState_Stale(i, base) ==
  [ exists |-> TRUE, corrupt |-> FALSE,
    issueId |-> i, branchName |-> generateBranchName(i), baseBranch |-> base,
    currentStep |-> "IMPLEMENTATION",
    completedSteps |-> << "BRANCH_CREATION" >>, retryCount |-> 0 ]

\* the state createInitialState builds
InitialState(i, base) ==
  [ exists |-> TRUE, corrupt |-> FALSE,
    issueId |-> i, branchName |-> generateBranchName(i), baseBranch |-> base,
    currentStep |-> "BRANCH_CREATION",
    completedSteps |-> << >>, retryCount |-> 0 ]

Idle == [ pc |-> "idle", issue |-> 0, state |-> NoState, attempt |-> 0,
          discards |-> 0, deletes |-> 0 ]

ZeroCounts == [ s \in WorkSteps |-> 0 ]

NoRet == [ kind |-> "none", caller |-> 0, issue |-> 0, state |-> NoState,
           at |-> "none", reason |-> "none", discards |-> 0, deletes |-> 0,
           invoked |-> ZeroCounts, resolved |-> { } ]

NoAct == [ caller |-> 0, issue |-> 0, step |-> "none" ]

\* dequeued: the issue dequeue() removed; marked: the issue passed to
\* markIssueAsProcessed (0: no such call); reported: the issues the tracker
\* listed to a poll; found: the issues getAssignedIssues returned from them
NoCycle == [ dequeued |-> 0, marked |-> 0, reported |-> { }, found |-> << >> ]

\* call: "process" or "resume" when the step is such a call on `issue`;
\* settled: how the awaited action of `issue` settled in this step
\* base: the baseBranch argument of a process call
NoEvent == [ call |-> "none", issue |-> 0, settled |-> "none",
             base |-> "none" ]

Called(op, i) == [ NoEvent EXCEPT !.call = op, !.issue = i ]

Settled(i, how) == [ NoEvent EXCEPT !.issue = i, !.settled = how ]

\* outcome of the best-effort writes (writeFileSync, unlinkSync) of one
\* step: they succeed on a healthy disk and throw on a failed one
WriteOutcomes == IF diskOk THEN { TRUE } ELSE { FALSE }

\* ------------------------------------------- ProcessingStateManager (store)
Raises_Uncaught(threw) == threw

\* the try/catch around the file-system calls of saveState, loadState and
\* cleanupState: whether the operation raises when one of them threw
Raises(threw) == FALSE

\* writeFileSync replaces the file, whatever it held
saveState(S, i, st, ok) ==
  IF ok THEN [ S EXCEPT ![i] = [ st EXCEPT !.exists = TRUE,
                                           !.corrupt = FALSE ] ]
  ELSE S

\* JSON.parse throws on the record of issue i
ParseThrows(S, i) == S[i].exists /\ S[i].corrupt

loadState_Unparsed(S, i) == S[i]

\* null (NoState) when the file is absent or JSON.parse throws
loadState(S, i) == IF ParseThrows(S, i) THEN NoState ELSE S[i]

\* the step updateStep pushes onto completedSteps: its third argument
PushCompleted_Current(done, cur) == cur

PushCompleted(done, cur) == done

updateStep_NoPush(S, i, cur, done, ok) ==
  LET st == loadState(S, i) IN
  IF ~st.exists THEN S
  ELSE saveState(S, i, [ st EXCEPT !.currentStep = cur ], ok)

updateStep(S, i, cur, done, ok) ==
  LET st == loadState(S, i) IN
  IF ~st.exists THEN S
  ELSE saveState(S, i,
         [ st EXCEPT !.currentStep = cur,
                     !.completedSteps =
                        IF Includes(@, PushCompleted(done, cur)) THEN @
                        ELSE Append(@, PushCompleted(done, cur)) ],
         ok)

createInitialState(S, i, base, ok) ==
  saveState(S, i, InitialState(i, base), ok)

cleanupState_Keep(S, i, ok) == S

cleanupState(S, i, ok) ==
  IF S[i].exists /\ ok THEN [ S EXCEPT ![i] = NoState ] ELSE S

incrementRetryCount_Rebuilds(S, i, ok) ==
  LET st == loadState(S, i) IN
  IF st.exists
  THEN saveState(S, i, [ InitialState(i, MainBranch) EXCEPT
                           !.currentStep = st.currentStep,
                           !.completedSteps = st.completedSteps,
                           !.retryCount = st.retryCount + 1 ], ok)
  ELSE S

incrementRetryCount(S, i, ok) ==
  LET st == loadState(S, i) IN
  IF st.exists THEN saveState(S, i, [ st EXCEPT !.retryCount = @ + 1 ], ok)
  ELSE S

\* ------------------------------------------------ ResumableIssueProcessor
CaseRuns_StaleStep(st, k) ==
  IF k = 1 THEN TRUE ELSE StepOrder[k - 1] = st.currentStep

\* processFromStep: the case label k is entered either by the switch or by
\* falling through; only the cases after BRANCH_CREATION re-test currentStep
CaseRuns(st, k) == IF k = 1 THEN TRUE ELSE st.currentStep = StepOrder[k]

\* the guard every handleXxx opens with
HandlerActs(st, k) == ~Includes(st.completedSteps, StepOrder[k])

\* first case from k on whose handler awaits its action; 6 when control
\* falls through to `case COMPLETED`
RECURSIVE FallThrough(_, _)
FallThrough(st, k) ==
  IF k >= 6 THEN 6
  ELSE IF CaseRuns(st, k) /\ HandlerActs(st, k) THEN k
  ELSE FallThrough(st, k + 1)

Advance_SkipsOne(st, k) ==
  [ st EXCEPT !.currentStep = StepOrder[IF k < 5 THEN k + 2 ELSE 6],
              !.completedSteps = Append(@, StepOrder[k]) ]

\* what a handler does to the working copy once its action has succeeded
Advance(st, k) ==
  [ st EXCEPT !.currentStep = StepOrder[k + 1],
              !.completedSteps = Append(@, StepOrder[k]) ]

\* ResumableProcessingResult, with the cleanup calls made during the call
Result(kind, c, i, st, at, reason, d, b) ==
  [ kind |-> kind, caller |-> c, issue |-> i, state |-> st, at |-> at,
    reason |-> reason, discards |-> d, deletes |-> b,
    invoked |-> ZeroCounts, resolved |-> { } ]

\* the state object handed back in a NeedsResume result (`currentState`)
ReturnedState(st, S, i) == st

\* cleanupOnError: one discardChanges and one deleteBranch (neither throws)
cleanupOnError(n) == n + 1

\* processFromStep from case label k on, up to the next awaited action or,
\* through `case COMPLETED`, to the Success return of processIssue
RunFrom(S, c, i, st, k, oks, d, b) ==
  LET n == FallThrough(st, k) IN
  IF n < 6
  THEN [ store |-> S, state |-> st, pc |-> StepOrder[n], res |-> NoRet ]
  ELSE LET st1 == [ st EXCEPT !.currentStep = "COMPLETED" ]
           S1 == updateStep(S, i, "COMPLETED", "PR_CREATION", oks[2])
           S2 == cleanupState(S1, i, oks[3])
       IN [ store |-> S2, state |-> st1, pc |-> "done",
            res |-> Result("Success", c, i, NoState, "COMPLETED", "none",
                           d, b) ]

\* processIssue up to its first await: load or create the state, then switch
BeginPipeline(c, i, base, oks) ==
  LET loaded == loadState(store, i)
      st0 == IF loaded.exists THEN loaded ELSE InitialState(i, base)
      S0 == IF loaded.exists THEN store
            ELSE createInitialState(store, i, base, oks[1])
  IN RunFrom(S0, c, i, st0, StepIndex(st0.currentStep), oks, 0, 0)

AfterSuccess_NotPersisted(c, oks) ==
  LET r == inv[c]
      k == StepIndex(r.pc)
  IN RunFrom(store, c, r.issue, Advance(r.state, k), k + 1, oks,
             r.discards, r.deletes)

\* a handler after its action succeeded: persist the advance, then go on
AfterSuccess(c, oks) ==
  LET r == inv[c]
      k == StepIndex(r.pc)
      S1 == updateStep(store, r.issue, StepOrder[k + 1], r.pc, oks[1])
  IN RunFrom(S1, c, r.issue, Advance(r.state, k), k + 1, oks,
             r.discards, r.deletes)

AfterRateLimit_Cleanup(c, oks) ==
  LET r == inv[c]
      n == cleanupOnError(0)
      S1 == incrementRetryCount(store, r.issue, oks[1])
  IN [ store |-> S1, state |-> r.state, pc |-> "done",
       res |-> Result("NeedsResume", c, r.issue,
                      ReturnedState(r.state, S1, r.issue), r.pc,
                      "rate limit", r.discards + n, r.deletes + n) ]

AfterRateLimit_StepDone(c, oks) ==
  LET r == inv[c]
      k == StepIndex(r.pc)
      S0 == updateStep(store, r.issue, StepOrder[k + 1], r.pc, oks[1])
      S1 == incrementRetryCount(S0, r.issue, oks[1])
  IN [ store |-> S1, state |-> r.state, pc |-> "done",
       res |-> Result("NeedsResume", c, r.issue,
                      ReturnedState(r.state, S1, r.issue), r.pc,
                      "rate limit", r.discards, r.deletes) ]

AfterRateLimit_Restart(c, oks) ==
  LET r == inv[c]
      old == loadState(store, r.issue)
      S1 == IF old.exists
            THEN saveState(store, r.issue,
                           [ old EXCEPT !.currentStep = "BRANCH_CREATION",
                                        !.completedSteps = << >>,
                                        !.retryCount = @ + 1 ], oks[1])
            ELSE store
  IN [ store |-> S1, state |-> r.state, pc |-> "done",
       res |-> Result("NeedsResume", c, r.issue,
                      ReturnedState(r.state, S1, r.issue), r.pc,
                      "rate limit", r.discards, r.deletes) ]

\* catch (RateLimitError) in processIssue
AfterRateLimit(c, oks) ==
  LET r == inv[c]
      S1 == incrementRetryCount(store, r.issue, oks[1])
  IN [ store |-> S1, state |-> r.state, pc |-> "done",
       res |-> Result("NeedsResume", c, r.issue,
                      ReturnedState(r.state, S1, r.issue), r.pc,
                      "rate limit", r.discards, r.deletes) ]

AfterError_AsResume(c, oks, pre, reason) ==
  [ AfterRateLimit(c, oks) EXCEPT !.res.reason = reason ]

AfterError_Uncaught(c, oks, pre, reason) ==
  [ store |-> store, state |-> inv[c].state, pc |-> "done",
    res |-> Result("Threw", c, inv[c].issue, NoState, inv[c].pc, reason,
                   inv[c].discards, inv[c].deletes) ]

\* catch (any other error) in processIssue; `pre` counts the cleanupOnError
\* calls the handler itself made before throwing
AfterError(c, oks, pre, reason) ==
  LET r == inv[c]
      n == cleanupOnError(pre)
      S1 == cleanupState(store, r.issue, oks[1])
  IN [ store |-> S1, state |-> r.state, pc |-> "done",
       res |-> Result("Failure", c, r.issue, NoState, r.pc, reason,
                      r.discards + n, r.deletes + n) ]

\* handleChangeDetection when checkForChanges() is false: cleans up itself,
\* then throws into the catch of processIssue
NoChangesCleanup == cleanupOnError(0)

\* ------------------------------------------------------------ bookkeeping
Bump(cnt, c, i, pc) ==
  IF c = Direct /\ pc \in WorkSteps /\ cnt[i][pc] < CountCap
  THEN [ cnt EXCEPT ![i][pc] = @ + 1 ] ELSE cnt

\* the history restarts when processIssue creates a fresh state
CountsAtBegin(i) ==
  IF loadState(store, i).exists THEN invoked
  ELSE [ invoked EXCEPT ![i] = ZeroCounts ]

\* IssueQueue.dequeue: shift()
dequeue(q) == IF q = << >> THEN q ELSE Tail(q)

\* the actions that have succeeded for issue i when a call on it begins:
\* none with a fresh state
ResolvedAtBegin(i) ==
  IF loadState(store, i).exists THEN resolved
  ELSE [ resolved EXCEPT ![i] = { } ]

\* ... and once the action caller c awaits has succeeded
Resolves(c) ==
  IF c = Direct THEN [ resolved EXCEPT ![inv[c].issue] = @ \cup { inv[c].pc } ]
  ELSE resolved

\* the pipeline variables after a run that ended in result record pr; cnt
\* are the invocation counters and rs the succeeded actions the run started
\* from
Commit(c, i, pr, cnt, rs) ==
  /\ store' = pr.store
  /\ ret' = IF pr.pc = "done"
            THEN [ pr.res EXCEPT !.invoked = cnt[i], !.resolved = rs[i] ]
            ELSE NoRet
  /\ resolved' = IF pr.pc # "done" \/ pr.store[i].exists THEN rs
                 ELSE [ rs EXCEPT ![i] = { } ]
  /\ act' = IF pr.pc = "done" THEN NoAct
            ELSE [ caller |-> c, issue |-> i, step |-> pr.pc ]
  /\ invoked' = IF pr.pc # "done" THEN Bump(cnt, c, i, pr.pc)
                ELSE IF pr.res.kind = "NeedsResume" THEN cnt
                ELSE [ cnt EXCEPT ![i] = ZeroCounts ]
  /\ inv' = [ inv EXCEPT ![c] =
                IF pr.pc = "done" THEN Idle
                ELSE [ pc |-> pr.pc, issue |-> i, state |-> pr.state,
                       attempt |-> 1, discards |-> 0, deletes |-> 0 ] ]
  /\ throttleRun' =
       IF pr.pc # "done" THEN throttleRun
       ELSE [ throttleRun EXCEPT
                ![i] = IF pr.res.kind = "NeedsResume" THEN @ + 1 ELSE 0 ]
  /\ outcomes' = IF pr.pc = "done" THEN outcomes \cup { i } ELSE outcomes
  /\ journal' = IF /\ journal.on
                     /\ c = Direct
                     /\ pr.pc = "done"
                     /\ pr.res.kind = "Success"
                  THEN [ journal EXCEPT !.completed = @ \cup { i } ]
                  ELSE journal

\* ProcessingManager.processIssue: the results after which it calls
\* githubClient.markIssueAsProcessed (the failure branch and the catch)
Notifies_FailureOnly(res) == res.kind = "Failure"

Notifies_AnyFailure(res) == res.kind # "Success"

Notifies(res) == res.kind \in { "Failure", "Threw" }

\* ProcessingManager.processIssue: the results for which it returns true,
\* upon which processNext dequeues
Removes(res) == res.kind \in { "Success", "Failure", "Threw" }

FlagAfter_NoFinally(res) == res.kind = "Threw"

\* ProcessingManager.processIssue: finally { setProcessing(false) }
FlagAfter(res) == FALSE

\* ProcessingManager.processIssue after the pipeline returned, then the rest
\* of processNext; T is the timer set the running callback started from
LoopTail(c, res, T) ==
  /\ processedIssues' = IF Notifies(res)
                        THEN processedIssues \cup { res.issue }
                        ELSE processedIssues
  /\ processing' = FlagAfter(res)
  /\ queue' = IF Removes(res) THEN dequeue(queue) ELSE queue
  /\ cycle' = [ NoCycle EXCEPT
                  !.dequeued = IF Removes(res) /\ queue # << >>
                               THEN Head(queue) ELSE 0,
                  !.marked = IF Notifies(res) THEN res.issue ELSE 0 ]
  /\ timers' = IF isRunning' THEN T \cup { c } ELSE T
  /\ processingLoop' = IF isRunning' THEN c ELSE processingLoop

\* the trail of issue i after a pause at step s
Paused(tr, i, s) == [ tr EXCEPT ![i] = IF @ = "none" THEN s ELSE "other" ]

\* the trail of issue i when a call on it begins: fresh with a fresh state
TrailAtBegin(i) ==
  IF loadState(store, i).exists THEN trail ELSE [ trail EXCEPT ![i] = "none" ]

\* an awaited action completes for caller c with pipeline result pr
Complete(c, pr, rs) ==
  /\ Commit(c, inv[c].issue, pr, invoked, rs)
  /\ started' = 0
  /\ UNCHANGED orch
  /\ trail' = IF c = Direct /\ pr.pc = "done" /\ pr.res.kind = "NeedsResume"
              THEN Paused(trail, inv[c].issue, pr.res.at)
              ELSE trail
  /\ UNCHANGED << diskOk, outages, arrived, isRunning >>
  /\ IF pr.pc = "done" /\ c # Direct
     THEN LoopTail(c, pr.res, timers)
     ELSE /\ cycle' = NoCycle
          /\ UNCHANGED << queue, processing, timers, processingLoop,
                          processedIssues >>

ThrottleBound(c) == IF c = Direct THEN MaxThrottles ELSE MaxLoopThrottles

\* --------------------------------------------- outcomes of awaited actions
\* switchToBranch / execute resolves, or checkForChanges resolves to true
ActionSucceeds(c) ==
  /\ inv[c].pc \in WorkSteps
  /\ event' = Settled(inv[c].issue, "resolved")
  /\ \E oks \in [ 1..3 -> WriteOutcomes ] :
       Complete(c, AfterSuccess(c, oks), Resolves(c))

\* withRetry goes round its loop once more: the action is invoked again
Reattempt(c, tr) ==
  /\ inv' = [ inv EXCEPT ![c].attempt = @ + 1 ]
  /\ invoked' = Bump(invoked, c, inv[c].issue, inv[c].pc)
  /\ UNCHANGED resolved
  /\ act' = [ caller |-> c, issue |-> inv[c].issue, step |-> inv[c].pc ]
  /\ ret' = NoRet
  /\ started' = 0
  /\ UNCHANGED orch
  /\ trail' = tr
  /\ cycle' = NoCycle
  /\ UNCHANGED << store, diskOk, outages, throttleRun, outcomes,
                  journal, arrived,
                  loopVars >>

RethrowsRateLimit_WhenExhausted(c) == inv[c].attempt >= MaxRetries

\* withRetry: if (error instanceof RateLimitError) throw error
RethrowsRateLimit(c) == TRUE

\* execute rejects with RateLimitError
ActionThrottled(c) ==
  /\ inv[c].pc \in AgentSteps
  /\ event' = Settled(inv[c].issue, "throttled")
  /\ throttleRun[inv[c].issue] < ThrottleBound(c)
  /\ store[inv[c].issue].retryCount < ThrottleBound(c)
  /\ IF RethrowsRateLimit(c)
     THEN \E oks \in [ 1..3 -> WriteOutcomes ] :
            Complete(c, AfterRateLimit(c, oks), resolved)
     ELSE Reattempt(c, trail)

\* withRetry has no attempt left.  The attempts are followed one by one for
\* a direct caller; for an invocation made by the processing loop, whose
\* state no attempt touches, withRetry is one awaited operation that ends
\* in success, in a RateLimitError or in the last attempt's error
LastAttempt(c) == c # Direct \/ inv[c].attempt = MaxRetries

\* the errors other than RateLimitError that ClaudeCodeExecutor.execute
\* rejects with: handleExecutionError throws a new Error, which does not
\* carry the nonRetryable flag
ExecuteErrors == { "plain" }

\* isNonRetryableError: the error carries nonRetryable === true
isNonRetryableError(e) == e = "flagged"

GivesUp_AtOnce(c, e) == TRUE

\* withRetry throws the error on instead of going round its loop again
GivesUp(c, e) == isNonRetryableError(e) \/ LastAttempt(c)

\* execute rejects with another error and withRetry has attempts left
ActionRetried(c) ==
  /\ inv[c].pc \in AgentSteps
  /\ event' = Settled(inv[c].issue, "rejected")
  /\ \E e \in ExecuteErrors : ~GivesUp(c, e)
  /\ Reattempt(c, [ trail EXCEPT ![inv[c].issue] = "other" ])

\* switchToBranch rejects, or execute rejects on the last attempt
ActionFails(c) ==
  /\ \/ inv[c].pc = "BRANCH_CREATION"
     \/ inv[c].pc \in AgentSteps /\ \E e \in ExecuteErrors : GivesUp(c, e)
  /\ event' = Settled(inv[c].issue, "rejected")
  /\ \E oks \in [ 1..3 -> WriteOutcomes ] :
        Complete(c, AfterError(c, oks, 0, "processing error"), resolved)

\* checkForChanges resolves to false
NoChangesDetected(c) ==
  /\ inv[c].pc = "CHANGE_DETECTION"
  /\ event' = Settled(inv[c].issue, "nochanges")
  /\ \E oks \in [ 1..3 -> WriteOutcomes ] :
        Complete(c, AfterError(c, oks, NoChangesCleanup, "no changes"),
                 resolved)

\* ----------------------------------------- direct calls of the pipeline API
\* processIssue(issue, baseBranch) called by a caller that awaits the result
CallProcess(i, base) ==
  /\ inv[Direct].pc = "idle"
  /\ \E oks \in [ 1..3 -> WriteOutcomes ] :
       Commit(Direct, i, BeginPipeline(Direct, i, base, oks),
              CountsAtBegin(i), ResolvedAtBegin(i))
  /\ started' = i
  /\ event' = [ Called("process", i) EXCEPT !.base = base ]
  /\ UNCHANGED orch
  /\ trail' = TrailAtBegin(i)
  /\ cycle' = NoCycle
  /\ UNCHANGED << diskOk, outages, arrived, loopVars >>

ResumeFinds_Any(S, i) == TRUE

\* resumeIssue: the test of the state it loaded
ResumeFinds(S, i) == loadState(S, i).exists

\* resumeIssue(issueId, issue)
CallResume(i) ==
  /\ inv[Direct].pc = "idle"
  /\ IF ~ResumeFinds(store, i)
     THEN /\ ret' = Result("Failure", Direct, i, NoState, "none",
                           "no processing state found", 0, 0)
          /\ started' = 0
          /\ act' = NoAct
          /\ UNCHANGED << store, inv, invoked, resolved, throttleRun, outcomes,
                          journal >>
     ELSE /\ \E oks \in [ 1..3 -> WriteOutcomes ] :
               Commit(Direct, i,
                      BeginPipeline(Direct, i,
                                    loadState(store, i).baseBranch, oks),
                      CountsAtBegin(i), ResolvedAtBegin(i))
          /\ started' = i
  /\ trail' = TrailAtBegin(i)
  /\ event' = Called("resume", i)
  /\ UNCHANGED orch
  /\ cycle' = NoCycle
  /\ UNCHANGED << diskOk, outages, arrived, loopVars >>

\* ---------------------------------------- IssueQueue and ProcessingManager
\* IssueQueue.enqueue of a one-issue batch
enqueue(q, i) == IF Includes(q, i) THEN q ELSE Append(q, i)

\* processor.processIssue rejects instead of returning a result: it throws
\* outside its try block, where generateBranchName reads issue.title
PipelineThrows(c, i) ==
  [ store |-> store, state |-> NoState, pc |-> "done",
    res |-> Result("Threw", c, i, NoState, "none", "unexpected error",
                   0, 0) ]

\* an issue that makes the pipeline throw does so on the first invocation
\* made for it
ThrowOutcomes(i) ==
  IF /\ ~loadState(store, i).exists
     /\ i \notin outcomes
     /\ \A c \in Callers : inv[c].issue # i
  THEN { FALSE, TRUE } ELSE { FALSE }

\* the body of the processNext closure c once isRunning has been tested;
\* T is the set of pending timers it leaves behind
processNext(c, T) ==
  IF queue # << >> /\ ~processing
  THEN LET i == Head(queue) IN
       /\ started' = i
       /\ event' = Called("process", i)
       /\ \E oks \in [ 1..3 -> WriteOutcomes ], throws \in ThrowOutcomes(i) :
            LET pr == IF throws THEN PipelineThrows(c, i)
                      ELSE BeginPipeline(c, i, MainBranch, oks) IN
            /\ Commit(c, i, pr, CountsAtBegin(i), ResolvedAtBegin(i))
            /\ IF pr.pc = "done"
               THEN LoopTail(c, pr.res, T)
               ELSE /\ processing' = TRUE
                    /\ timers' = T
                    /\ cycle' = NoCycle
                    /\ UNCHANGED << queue, processingLoop, processedIssues >>
  ELSE /\ timers' = T \cup { c }
       /\ processingLoop' = c
       /\ ret' = NoRet /\ act' = NoAct /\ started' = 0 /\ cycle' = NoCycle
       /\ event' = NoEvent
       /\ UNCHANGED << store, inv, invoked, resolved, throttleRun, outcomes,
                       journal, queue,
                       processing, processedIssues >>

\* a chain identifier no closure is using
FreeChain(c) == c \notin timers /\ inv[c].pc = "idle"

\* ProcessingManager.start
Start ==
  /\ UNCHANGED << diskOk, outages, arrived, trail, orch >>
  /\ IF isRunning
     THEN /\ ret' = NoRet /\ act' = NoAct /\ started' = 0
          /\ cycle' = NoCycle
          /\ event' = NoEvent
          /\ UNCHANGED << store, inv, invoked, resolved, throttleRun, outcomes,
                          journal, loopVars >>
     ELSE \E c \in Chains :
            /\ FreeChain(c)
            /\ \A d \in Chains : FreeChain(d) => c <= d
            /\ isRunning' = TRUE
            /\ processNext(c, timers)

\* ProcessingManager.stop
Stop ==
  /\ UNCHANGED orch
  /\ event' = NoEvent
  /\ ret' = NoRet /\ act' = NoAct /\ started' = 0 /\ cycle' = NoCycle
  /\ UNCHANGED << store, diskOk, outages, inv, invoked, resolved, throttleRun,
                  outcomes, journal, arrived, queue, processedIssues, trail >>
  /\ IF ~isRunning
     THEN UNCHANGED << isRunning, timers, processingLoop, processing >>
     ELSE /\ isRunning' = FALSE
          /\ timers' = timers \ { processingLoop }
          /\ processingLoop' = 0
          /\ processing' = FALSE

Tick_NoRunningTest(c) ==
  /\ c \in timers
  /\ UNCHANGED << diskOk, outages, arrived, isRunning, trail, orch >>
  /\ processNext(c, timers \ { c })

enqueueAll_NoTest(q, batch) == q \o batch

\* IssueQueue.enqueue: forEach over the batch, each issue tested against the
\* queue as the issues before it have left it
RECURSIVE enqueueAll(_, _)
enqueueAll(q, batch) ==
  IF batch = << >> THEN q
  ELSE enqueueAll(enqueue(q, Head(batch)), Tail(batch))

\* the timer of chain c fires: processNext
Tick(c) ==
  /\ c \in timers
  /\ UNCHANGED << diskOk, outages, arrived, isRunning, trail, orch >>
  /\ IF ~isRunning
     THEN /\ timers' = timers \ { c }
          /\ event' = NoEvent
          /\ ret' = NoRet /\ act' = NoAct /\ started' = 0
          /\ cycle' = NoCycle
          /\ UNCHANGED << store, inv, invoked, resolved, throttleRun, outcomes,
                          journal, queue,
                          processing, processingLoop, processedIssues >>
     ELSE processNext(c, timers \ { c })

\* a poll finds issue i: GitHubClient.getAssignedIssues filters what it
\* has returned before, IssuePoller.pollOnce enqueues the rest (issues are
\* numbered in the order the tracker first reports them)
Poll(i) ==
  /\ i \notin processedIssues
  /\ \A j \in Issues : j < i => Includes(arrived, j)
  /\ processedIssues' = processedIssues \cup { i }
  /\ queue' = enqueue(queue, i)
  /\ arrived' = IF Includes(queue, i) THEN arrived ELSE Append(arrived, i)
  /\ event' = NoEvent /\ UNCHANGED orch
  /\ ret' = NoRet /\ act' = NoAct /\ started' = 0 /\ cycle' = NoCycle
  /\ UNCHANGED << store, diskOk, outages, inv, invoked, resolved, throttleRun,
                  outcomes,
                  journal, processing, isRunning, timers, processingLoop,
                  trail >>

\* what the tracker can list to one poll: open issues assigned to the user,
\* each once, in the order of their ids
Listings ==
  { l \in UNION { [ 1..n -> Issues ] : n \in 0..NumIssues } :
      \A k \in 1..(Len(l) - 1) : l[k] < l[k + 1] }

Range(seq) == { seq[k] : k \in 1..Len(seq) }

getAssignedIssues_Unfiltered(P, listing) == listing

\* GitHubClient.getAssignedIssues: the listed issues whose id is not in
\* processedIssues (P); the caller adds what is returned to the set
NotProcessed(P, i) == i \notin P

getAssignedIssues(P, listing) ==
  SelectSeq(listing, LAMBDA i : NotProcessed(P, i))

\* IssuePoller.pollOnce with the tracker listing `listing`; fetched is
\* FALSE when every attempt of the gh call failed, which pollOnce logs.
\* Issues are numbered in the order the tracker first lists them.
PollOnce(listing, fetched) ==
  LET found == IF fetched THEN getAssignedIssues(processedIssues, listing)
               ELSE << >>
  IN /\ \A i \in Range(found) :
          \A j \in Issues :
            j < i => ( Includes(arrived, j) \/ j \in Range(found) )
     /\ processedIssues' = processedIssues \cup Range(found)
     /\ queue' = IF found # << >> THEN enqueueAll(queue, found) ELSE queue
     /\ arrived' = arrived \o SubSeq(queue', Len(queue) + 1, Len(queue'))
     /\ cycle' = IF fetched
                 THEN [ NoCycle EXCEPT !.reported = Range(listing),
                                       !.found = found ]
                 ELSE NoCycle
     /\ event' = NoEvent /\ UNCHANGED orch
     /\ ret' = NoRet /\ act' = NoAct /\ started' = 0
     /\ UNCHANGED << store, diskOk, outages, inv, invoked,
                     resolved, throttleRun,
                     outcomes, journal, processing, isRunning, timers,
                     processingLoop, trail >>

\* -------------------------------------------- direct calls of the queue API
\* batches of at most MaxBatch issues, the same issue twice included
Batches == UNION { [ 1..n -> Issues ] : n \in 1..MaxBatch }

peek_Last(q) == IF q = << >> THEN 0 ELSE q[Len(q)]

\* IssueQueue.peek: queue[0] (0: undefined)
peek(q) == IF q = << >> THEN 0 ELSE q[1]

\* findIndex
FirstIndex(q, i) == CHOOSE k \in 1..Len(q) :
                      q[k] = i /\ \A j \in 1..(k - 1) : q[j] # i

\* IssueQueue.remove: splice(index, 1) at the first entry with that id
remove(q, i) ==
  IF ~Includes(q, i) THEN q
  ELSE LET k == FirstIndex(q, i) IN
       SubSeq(q, 1, k - 1) \o SubSeq(q, k + 1, Len(q))

\* what a call of the queue API leaves alone
QueueCall ==
  /\ event' = NoEvent /\ UNCHANGED orch
  /\ ret' = NoRet /\ act' = NoAct /\ started' = 0
  /\ UNCHANGED << store, diskOk, outages, inv, invoked, resolved, throttleRun,
                  outcomes,
                  journal, processing, isRunning, timers, processingLoop,
                  processedIssues, trail >>

\* queue.enqueue(batch)
CallEnqueue(batch) ==
  /\ Len(arrived) + Len(batch) <= MaxArrivals
  /\ queue' = enqueueAll(queue, batch)
  /\ arrived' = arrived \o SubSeq(queue', Len(queue) + 1, Len(queue'))
  /\ cycle' = NoCycle
  /\ QueueCall

\* queue.dequeue()
CallDequeue ==
  /\ queue' = dequeue(queue)
  /\ cycle' = [ NoCycle EXCEPT !.dequeued = peek(queue) ]
  /\ UNCHANGED arrived
  /\ QueueCall

\* queue.remove(issueId)
CallRemove(i) ==
  /\ queue' = remove(queue, i)
  /\ cycle' = NoCycle
  /\ UNCHANGED arrived
  /\ QueueCall

\* ------------------------------------- direct calls of the state-store API
\* the issue whose record the calls below work on
StoreIssue == 1

\* the outcome of a store operation: kind Returned or Raised, `at` the
\* operation, `state` the record as it was before the call
StoreResult(op, threw) ==
  Result(IF Raises(threw) THEN "Raised" ELSE "Returned", Direct, StoreIssue,
         store[StoreIssue], op, "none", 0, 0)

\* what a call of the store API leaves alone
StoreCall ==
  /\ event' = NoEvent /\ UNCHANGED orch
  /\ act' = NoAct /\ started' = 0 /\ cycle' = NoCycle
  /\ UNCHANGED << diskOk, outages, inv, invoked,
                  resolved, throttleRun, outcomes,
                  journal,
                  arrived, loopVars, trail >>

\* stateManager.createInitialState(issueId, branchName, baseBranch)
CallCreate ==
  /\ \E ok \in WriteOutcomes :
       /\ store' = createInitialState(store, StoreIssue, MainBranch, ok)
       /\ ret' = StoreResult("createInitialState", ~ok)
  /\ StoreCall

\* stateManager.loadState(issueId)
CallLoad ==
  /\ store' = store
  /\ ret' = [ StoreResult("loadState", ParseThrows(store, StoreIssue))
                EXCEPT !.state = loadState(store, StoreIssue) ]
  /\ StoreCall

\* stateManager.updateStep(issueId, next step, completed step)
CallUpdateStep(k) ==
  /\ \E ok \in WriteOutcomes :
       /\ store' = updateStep(store, StoreIssue, StepOrder[k + 1],
                              StepOrder[k], ok)
       /\ ret' = StoreResult("updateStep",
                    \/ ParseThrows(store, StoreIssue)
                    \/ loadState(store, StoreIssue).exists /\ ~ok)
  /\ StoreCall

\* stateManager.incrementRetryCount(issueId)
CallIncrement ==
  /\ store[StoreIssue].retryCount < MaxLoopThrottles
  /\ \E ok \in WriteOutcomes :
       /\ store' = incrementRetryCount(store, StoreIssue, ok)
       /\ ret' = StoreResult("incrementRetryCount",
                    \/ ParseThrows(store, StoreIssue)
                    \/ loadState(store, StoreIssue).exists /\ ~ok)
  /\ StoreCall

\* stateManager.cleanupState(issueId)
CallCleanup ==
  /\ \E ok \in WriteOutcomes :
       /\ store' = cleanupState(store, StoreIssue, ok)
       /\ ret' = StoreResult("cleanupState",
                             store[StoreIssue].exists /\ ~ok)
  /\ StoreCall

\* ------------------------------------------------------------ environment
\* the state file of issue i is damaged: its content no longer parses
Corrupts(i) ==
  /\ store[i].exists
  /\ ~store[i].corrupt
  /\ store' = [ store EXCEPT ![i].corrupt = TRUE ]
  /\ event' = NoEvent /\ UNCHANGED orch
  /\ ret' = NoRet /\ started' = 0 /\ act' = NoAct /\ cycle' = NoCycle
  /\ UNCHANGED << diskOk, outages, inv, invoked,
                  resolved, throttleRun, outcomes,
                  journal,
                  arrived, loopVars, trail >>

\* the state directory starts / stops rejecting writes
DiskFails == /\ diskOk
             /\ outages < MaxOutages
             /\ diskOk' = FALSE
             /\ outages' = outages + 1
             /\ event' = NoEvent /\ UNCHANGED orch
             /\ ret' = NoRet /\ started' = 0 /\ act' = NoAct /\ cycle' = NoCycle
             /\ UNCHANGED << store, inv, invoked,
                             resolved, throttleRun, outcomes,
                             journal,
                             arrived, loopVars, trail >>

DiskRecovers == /\ ~diskOk
                /\ diskOk' = TRUE
                /\ outages' = outages
                /\ event' = NoEvent /\ UNCHANGED orch
                /\ ret' = NoRet /\ started' = 0 /\ act' = NoAct
                /\ cycle' = NoCycle
                /\ UNCHANGED << store, inv, invoked,
                                resolved, throttleRun, outcomes,
                                journal,
                                arrived, loopVars, trail >>

\* ------------------------------------------------- DispatcherOrchestrator
\* isRunning: the orchestrator's flag; pc: "polling" while start() awaits
\* poller.start(); outcome, failedAt: how a start() call ended in this step;
\* polling, pollTimer: IssuePoller.isRunning, pollTimer; looping, loopTimer,
\* loopCycle: isRunning of the ProcessingManager, its pending setTimeout,
\* its processNext awaiting an invocation; monitoring, monitorTimer:
\* StatusMonitor.isMonitoring, monitoringInterval; stray: flags and timers
\* still set in components the orchestrator no longer refers to; oldCycles:
\* invocations in flight in such components
OrchIdle ==
  [ isRunning |-> FALSE, pc |-> "idle", outcome |-> "none",
    failedAt |-> "none", polling |-> FALSE, pollTimer |-> FALSE,
    looping |-> FALSE, loopTimer |-> FALSE, loopCycle |-> FALSE,
    monitoring |-> FALSE, monitorTimer |-> FALSE, stray |-> 0,
    oldCycles |-> 0 ]

\* the record between two start() calls
Quiet(o) == [ o EXCEPT !.outcome = "none", !.failedAt = "none" ]

\* StatusMonitor.stopMonitoring
stopMonitoring(o) ==
  IF ~o.monitoring THEN o
  ELSE [ o EXCEPT !.monitoring = FALSE, !.monitorTimer = FALSE ]

\* ProcessingManager.stop (its setProcessing(false) is in the actions)
stopLoop(o) ==
  IF ~o.looping THEN o
  ELSE [ o EXCEPT !.looping = FALSE, !.loopTimer = FALSE ]

\* IssuePoller.stop
stopPoller(o) ==
  IF ~o.polling THEN o
  ELSE [ o EXCEPT !.polling = FALSE, !.pollTimer = FALSE ]

\* DispatcherOrchestrator.stop
orchStop(o) ==
  IF ~o.isRunning THEN o
  ELSE stopPoller(stopLoop(stopMonitoring([ o EXCEPT !.isRunning = FALSE ])))

AfterStartFailure_NoStop(o, step) ==
  [ o EXCEPT !.pc = "idle", !.outcome = "rejected", !.failedAt = step ]

\* the catch of DispatcherOrchestrator.start: stop(), then rethrow
AfterStartFailure(o, step) ==
  [ orchStop(o) EXCEPT !.pc = "idle", !.outcome = "rejected",
                       !.failedAt = step ]

Count(b) == IF b THEN 1 ELSE 0

\* serviceContainer.createIssuePoller / createProcessingManager /
\* createStatusMonitor: new objects replace the ones start() created before
NewComponents(o) ==
  [ o EXCEPT !.stray = @ + Count(o.polling) + Count(o.pollTimer)
                         + Count(o.looping) + Count(o.loopTimer)
                         + Count(o.monitoring) + Count(o.monitorTimer),
             !.oldCycles = @ + Count(o.loopCycle),
             !.polling = FALSE, !.pollTimer = FALSE, !.looping = FALSE,
             !.loopTimer = FALSE, !.loopCycle = FALSE,
             !.monitoring = FALSE, !.monitorTimer = FALSE ]

\* processNext of the orchestrator's ProcessingManager, isRunning tested:
\* it begins an invocation on the head of the queue or re-arms its timer
loopNext(o) ==
  IF queue # << >> /\ ~processing
  THEN [ o EXCEPT !.loopCycle = TRUE, !.loopTimer = FALSE ]
  ELSE [ o EXCEPT !.loopTimer = TRUE ]

\* what a step of the orchestrator leaves alone
OrchStep ==
  /\ ret' = NoRet /\ act' = NoAct /\ started' = 0 /\ cycle' = NoCycle
  /\ event' = NoEvent
  /\ UNCHANGED << store, diskOk, outages, inv, invoked, resolved, throttleRun,
                  outcomes, journal, arrived, isRunning, timers,
                  processingLoop, processedIssues, trail >>

\* the ways the prerequisites validation can end
ValidateOutcomes == { "ok", "validate" }

\* orchestrator.start(), up to its first await that takes time
OrchStart ==
  /\ orch.pc = "idle"
  /\ orch.oldCycles < MaxChains
  /\ UNCHANGED << queue, processing >>
  /\ OrchStep
  /\ IF orch.isRunning
     THEN orch' = [ orch EXCEPT !.outcome = "resolved", !.failedAt = "none" ]
     ELSE \E v \in ValidateOutcomes :
            orch' = IF v = "validate"
                    THEN AfterStartFailure(orch, "validate")
                    ELSE [ NewComponents(Quiet(orch)) EXCEPT
                             !.isRunning = TRUE, !.polling = TRUE,
                             !.pc = "polling" ]

\* the ways the rest of start() can go: "ok", or the component whose start
\* throws
StartOutcomes == { "ok", "poller", "loop", "monitor" }

\* poller.start() settles (its first poll has enqueued what it found) and
\* start() runs on to its end, or to the component whose start throws; o is
\* the record as the last statement that ran has left it
OrchPolled(how, batch) ==
  /\ orch.pc = "polling"
  /\ OrchStep
  /\ queue' = enqueueAll(queue, batch)
  /\ LET o1 == [ orch EXCEPT !.pollTimer = TRUE ]
         o2 == [ o1 EXCEPT !.looping = TRUE ]
         o3 == IF queue' # << >> /\ ~processing
               THEN [ o2 EXCEPT !.loopCycle = TRUE ]
               ELSE [ o2 EXCEPT !.loopTimer = TRUE ]
         o4 == [ o3 EXCEPT !.monitoring = TRUE ]
         o5 == [ o4 EXCEPT !.monitorTimer = TRUE, !.pc = "idle",
                           !.outcome = "resolved" ]
         Reached == CASE how = "poller" -> { orch }
                      [] how = "loop" -> { o1, o2 }
                      [] how = "monitor" -> { o3, o4 }
                      [] OTHER -> { o5 }
     IN \E o \in Reached :
          /\ orch' = IF how = "ok" THEN o ELSE AfterStartFailure(o, how)
          /\ processing' = IF how # "ok" /\ o.looping THEN FALSE
                           ELSE ( processing \/ o.loopCycle )

\* orchestrator.stop()
OrchStop ==
  /\ orch.pc = "idle"
  /\ orch' = orchStop(Quiet(orch))
  /\ processing' = IF orch.isRunning /\ orch.looping THEN FALSE
                   ELSE processing
  /\ UNCHANGED queue
  /\ OrchStep

\* orchestrator.stop() called while start() awaits poller.start(): the
\* ProcessingManager and the StatusMonitor have been created, not started
OrchStopWhileStarting ==
  /\ orch.pc = "polling"
  /\ orch.isRunning
  /\ orch.stray <= MaxStray
  /\ orch' = orchStop(orch)
  /\ UNCHANGED << queue, processing >>
  /\ OrchStep

\* the interval timer of the poller fires: pollOnce
OrchPollTick(batch) ==
  /\ orch.pollTimer
  /\ queue' = enqueueAll(queue, batch)
  /\ queue' # queue
  /\ orch' = Quiet(orch)
  /\ UNCHANGED processing
  /\ OrchStep

\* the timer of the ProcessingManager fires: processNext
OrchLoopTick ==
  /\ orch.loopTimer
  /\ orch' = IF orch.looping
             THEN loopNext([ Quiet(orch) EXCEPT !.loopTimer = FALSE ])
             ELSE [ Quiet(orch) EXCEPT !.loopTimer = FALSE ]
  /\ processing' = ( orch'.loopCycle \/ processing )
  /\ UNCHANGED queue
  /\ OrchStep

\* the invocation awaited by the ProcessingManager returns; removes: its
\* processIssue returned true
OrchCycleEnds(removes) ==
  /\ orch.loopCycle
  /\ orch' = [ Quiet(orch) EXCEPT !.loopCycle = FALSE,
                                  !.loopTimer = orch.looping ]
  /\ processing' = FALSE
  /\ queue' = IF removes THEN dequeue(queue) ELSE queue
  /\ OrchStep

\* the same in a ProcessingManager of an earlier start(): it is stopped
OrchOldCycleEnds(removes) ==
  /\ orch.oldCycles > 0
  /\ orch' = [ Quiet(orch) EXCEPT !.oldCycles = @ - 1 ]
  /\ processing' = FALSE
  /\ queue' = IF removes THEN dequeue(queue) ELSE queue
  /\ OrchStep

\* ------------------------------------------------------------------- Init
InitRest ==
  /\ store = [ i \in Issues |-> NoState ]
  /\ diskOk = TRUE
  /\ outages = 0
  /\ inv = [ c \in Callers |-> Idle ]
  /\ ret = NoRet
  /\ invoked = [ i \in Issues |-> ZeroCounts ]
  /\ resolved = [ i \in Issues |-> { } ]
  /\ act = NoAct
  /\ throttleRun = [ i \in Issues |-> 0 ]
  /\ queue = << >>
  /\ processing = FALSE
  /\ isRunning = FALSE
  /\ timers = { }
  /\ processingLoop = 0
  /\ processedIssues = { }
  /\ arrived = << >>
  /\ started = 0
  /\ outcomes = { }
  /\ trail = [ i \in Issues |-> "none" ]
  /\ cycle = NoCycle
  /\ event = NoEvent
  /\ orch = OrchIdle

Init == InitRest /\ journal = [ on |-> FALSE, completed |-> { } ]

\* the same state, the journal kept
InitJournal == InitRest /\ journal = [ on |-> TRUE, completed |-> { } ]

\* the dispatcher: poller, queue and processing loop driving the pipeline
Next ==
  \/ Start
  \/ Stop
  \/ \E c \in Chains : Tick(c)
  \/ \E i \in Issues : Poll(i)
  \/ \E c \in Chains : ActionSucceeds(c)
  \/ \E c \in Chains : ActionThrottled(c)
  \/ \E c \in Chains : ActionFails(c)
  \/ \E c \in Chains : NoChangesDetected(c)

Spec == Init /\ [][Next]_vars

\* the dispatcher, its polls taking whatever the tracker lists
NextPoll ==
  \/ Start
  \/ Stop
  \/ \E c \in Chains : Tick(c)
  \/ \E listing \in Listings, fetched \in BOOLEAN : PollOnce(listing, fetched)
  \/ \E c \in Chains : ActionSucceeds(c)
  \/ \E c \in Chains : ActionThrottled(c)
  \/ \E c \in Chains : ActionFails(c)
  \/ \E c \in Chains : NoChangesDetected(c)

SpecPoll == Init /\ [][NextPoll]_vars

\* the awaited action of closure c settles, one way or another
AwaitSettles(c) ==
  \/ ActionSucceeds(c)
  \/ ActionThrottled(c)
  \/ ActionFails(c)
  \/ NoChangesDetected(c)

\* the dispatcher on an event loop that fires every pending timer and on
\* collaborators whose awaited calls all settle
SpecLive ==
  /\ Spec
  /\ \A c \in Chains : WF_vars(Tick(c))
  /\ \A c \in Chains : WF_vars(AwaitSettles(c))

\* the pipeline driven through its API, one call at a time
NextPipeline ==
  \/ \E i \in DirectIssues : CallProcess(i, MainBranch)
  \/ \E i \in DirectIssues : CallResume(i)
  \/ ActionSucceeds(Direct)
  \/ ActionThrottled(Direct)
  \/ ActionRetried(Direct)
  \/ ActionFails(Direct)
  \/ NoChangesDetected(Direct)

SpecPipeline == Init /\ [][NextPipeline]_vars

\* the same, the caller passing any base branch
NextBranches ==
  \/ \E i \in DirectIssues, base \in BaseBranches : CallProcess(i, base)
  \/ \E i \in DirectIssues : CallResume(i)
  \/ ActionSucceeds(Direct)
  \/ ActionThrottled(Direct)
  \/ ActionRetried(Direct)
  \/ ActionFails(Direct)
  \/ NoChangesDetected(Direct)

SpecBranches == Init /\ [][NextBranches]_vars

\* the same, with the journal of completed issues kept
SpecRerun == InitJournal /\ [][NextPipeline]_vars

\* the same, on a state directory whose writes may fail
NextFaulty == NextPipeline \/ DiskFails \/ DiskRecovers

SpecFaulty == Init /\ [][NextFaulty]_vars

\* the pipeline on a state directory whose files may get damaged
NextCorrupt == NextPipeline \/ \E i \in DirectIssues : Corrupts(i)

SpecCorrupt == Init /\ [][NextCorrupt]_vars

\* the state store driven through its API, on a directory whose writes may
\* fail and whose files may get damaged
NextStore ==
  \/ CallCreate
  \/ CallLoad
  \/ \E k \in 1..5 : CallUpdateStep(k)
  \/ CallIncrement
  \/ CallCleanup
  \/ Corrupts(StoreIssue)
  \/ DiskFails
  \/ DiskRecovers

SpecStore == Init /\ [][NextStore]_vars

\* the orchestrator, its start() and stop() called one at a time
NextOrch ==
  \/ OrchStart
  \/ \E how \in StartOutcomes, batch \in Batches \cup { << >> } :
       OrchPolled(how, batch)
  \/ OrchStop
  \/ \E batch \in Batches : OrchPollTick(batch)
  \/ OrchLoopTick
  \/ \E removes \in BOOLEAN : OrchCycleEnds(removes)
  \/ \E removes \in BOOLEAN : OrchOldCycleEnds(removes)

SpecOrch == Init /\ [][NextOrch]_vars

\* ... and with stop() also called while a start() is awaiting the poller
NextOrchRace == NextOrch \/ OrchStopWhileStarting

SpecOrchRace == Init /\ [][NextOrchRace]_vars

\* the queue driven through its API
NextQueue ==
  \/ \E batch \in Batches : CallEnqueue(batch)
  \/ CallDequeue
  \/ \E i \in Issues : CallRemove(i)

SpecQueue == Init /\ [][NextQueue]_vars

\* the queue driven by enqueue and dequeue alone
NextFifo ==
  \/ \E batch \in Batches : CallEnqueue(batch)
  \/ CallDequeue

SpecFifo == Init /\ [][NextFifo]_vars

\* ================================================================ claims
InFlight == { c \in Callers : inv[c].pc # "idle" }

\* the first k steps of the pipeline, in order
Prefix(k) == [ j \in 1..k |-> StepOrder[j] ]

\* C1: the action of a step that is already in the persisted completedSteps
\* of its issue is never invoked again by any later process/resumeIssue
\* call (so a resume at COMMIT_PUSH runs only commit/push and PR creation,
\* and repeated throttles at PR_CREATION re-run none of the four steps
\* before it).
C1_CompletedStepNeverReinvoked ==
  act.step # "none" =>
    ~( store[act.issue].exists
       /\ Includes(store[act.issue].completedSteps, act.step) )

\* five throttles at PR_CREATION, and the sixth call runs PR creation again
\* while the four earlier actions have each run once
C1_Witness ==
  /\ act.step = "PR_CREATION"
  /\ store[act.issue].retryCount = 5
  /\ \A s \in WorkSteps \ { "PR_CREATION" } : invoked[act.issue][s] = 1

\* C2: every persisted state has as completedSteps a prefix, in order, of
\* BRANCH_CREATION .. PR_CREATION, and as currentStep the first step that
\* is not in completedSteps.
C2_CompletedStepsIsPrefix ==
  \A i \in Issues :
    store[i].exists =>
      \E k \in 0..4 : /\ store[i].completedSteps = Prefix(k)
                      /\ store[i].currentStep = StepOrder[k + 1]

\* a state that was advanced to PR_CREATION and paused twice
C2_Witness ==
  \E i \in Issues : /\ store[i].exists
                    /\ store[i].currentStep = "PR_CREATION"
                    /\ store[i].retryCount = 2
                    /\ inv[Direct].pc = "idle"

\* C3: a terminal Failure returned after the branch was created comes with
\* exactly one discardChanges call and exactly one deleteBranch call made
\* during that call, and leaves no persisted state for the issue.
C3_ExactlyOneCleanup ==
  ( ret.kind = "Failure" /\ ret.at \in WorkSteps \ { "BRANCH_CREATION" } ) =>
    /\ ret.discards = 1
    /\ ret.deletes = 1
    /\ ~store[ret.issue].exists

\* C4: at most one pipeline invocation is in flight at any time, whatever
\* the interleaving of start, stop, timer ticks and completions.
C4_AtMostOneInFlight == Cardinality(InFlight) <= 1

\* C5: an invocation begins only on the head of the queue, and only when
\* every issue that arrived earlier has had an outcome returned and has
\* left the queue.
C5_FifoSingleInFlight ==
  started # 0 =>
    /\ act.step # "none" => ( queue # << >> /\ Head(queue) = started )
    /\ \A j \in Issues :
         j < started => ( j \in outcomes /\ ~Includes(queue, j) )

\* C6: after the N-th of N consecutive throttled calls on an issue its
\* persisted retryCount is N and the issue is at the head of the queue.
C6_RetryCountCountsThrottles ==
  ret.kind = "NeedsResume" =>
    /\ store[ret.issue].exists
    /\ store[ret.issue].retryCount = throttleRun[ret.issue]
    /\ queue # << >>
    /\ Head(queue) = ret.issue

\* C7: the state carried by a NeedsResume result is the state as persisted
\* at the pause: same currentStep and same retryCount.
C7_ReturnedStateIsPersistedState ==
  ret.kind = "NeedsResume" =>
    /\ ret.state.currentStep = store[ret.issue].currentStep
    /\ ret.state.retryCount = store[ret.issue].retryCount

\* C8: whenever process returns NeedsResume a persisted state of the issue
\* exists, also when writes to the state directory failed silently.
C8_NeedsResumeHasPersistedState ==
  ret.kind = "NeedsResume" => store[ret.issue].exists

\* C9: a call that ends in NeedsResume has called neither discardChanges
\* nor deleteBranch.
C9_NoCleanupOnRateLimit ==
  ret.kind = "NeedsResume" => ( ret.discards = 0 /\ ret.deletes = 0 )

\* commit/push was throttled after implementation had left changes
C9_Witness ==
  /\ ret.kind = "NeedsResume"
  /\ ret.at = "COMMIT_PUSH"
  /\ Includes(ret.state.completedSteps, "IMPLEMENTATION")

\* C10: after a throttled call the persisted currentStep is the step whose
\* action was throttled, and that step is not in completedSteps.
C10_PausedAtThrottledStep ==
  ret.kind = "NeedsResume" =>
    /\ store[ret.issue].exists
    /\ store[ret.issue].currentStep = ret.at
    /\ ~Includes(store[ret.issue].completedSteps, ret.at)

\* the pause at COMMIT_PUSH of a call that was itself a resume
C10_Witness ==
  /\ ret.kind = "NeedsResume"
  /\ ret.at = "COMMIT_PUSH"
  /\ store[ret.issue].currentStep = "COMMIT_PUSH"
  /\ store[ret.issue].retryCount = 2

\* C11: a throttled agent call is not retried inside the process call: when
\* the work on an issue was paused once, at IMPLEMENTATION, and no attempt
\* failed otherwise, the call that returns Success has seen the
\* implementation action invoked exactly twice in all and the action of
\* every other step exactly once.
C11_ThrottledCallNotRetried ==
  ( ret.kind = "Success" /\ trail[ret.issue] = "IMPLEMENTATION" ) =>
    /\ ret.invoked["IMPLEMENTATION"] = 2
    /\ \A s \in WorkSteps \ { "IMPLEMENTATION" } : ret.invoked[s] = 1

\* the Success of the call that resumed after the pause at IMPLEMENTATION
C11_Witness ==
  /\ ret.kind = "Success"
  /\ trail[ret.issue] = "IMPLEMENTATION"
  /\ ret.invoked["IMPLEMENTATION"] = 2

\* C12: when process returns Success or a terminal Failure, the store holds
\* no state for the issue.
C12_NoStateAfterTerminalReturn ==
  ret.kind \in { "Success", "Failure" } => ~loadState(store, ret.issue).exists

\* the Success of a call that resumed a state persisted by a pause
C12_Witness ==
  /\ ret.kind = "Success"
  /\ trail[ret.issue] = "PR_CREATION"
  /\ ~loadState(store, ret.issue).exists

\* C13: when change detection finds no modification the call returns a
\* terminal Failure, at CHANGE_DETECTION, and neither the commit/push nor
\* the PR-creation action has been invoked.
C13_NoChangesIsTerminalFailure ==
  ret.reason = "no changes" =>
    /\ ret.kind = "Failure"
    /\ ret.at = "CHANGE_DETECTION"
    /\ ret.invoked["COMMIT_PUSH"] = 0
    /\ ret.invoked["PR_CREATION"] = 0

\* no changes found by a call that had resumed after a pause
C13_Witness ==
  /\ ret.reason = "no changes"
  /\ ret.kind = "Failure"
  /\ ret.invoked["IMPLEMENTATION"] = 2
  /\ ret.invoked["CHANGE_DETECTION"] = 1

\* the pipeline result the processing loop received in this step
LoopReturn == ret.kind # "none" /\ ret.caller \in Chains

\* C14: an issue leaves the queue only in the step in which its own
\* pipeline invocation returned a terminal outcome to the loop.
C14_DequeuedOnlyByOwnTerminalOutcome ==
  cycle.dequeued # 0 =>
    /\ LoopReturn
    /\ ret.kind \in { "Success", "Failure", "Threw" }
    /\ ret.issue = cycle.dequeued

\* C15: an issue whose invocation returned NeedsResume to the loop is
\* passed to the pipeline again later, unless the loop is stopped.
C15_PausedIssueIsRetried ==
  \A i \in Issues :
    ( LoopReturn /\ ret.kind = "NeedsResume" /\ ret.issue = i )
      ~> ( started = i \/ ~isRunning )

\* C16: when ProcessingManager.processIssue has returned, whatever the
\* pipeline did (Success, NeedsResume, Failure, or an unexpected throw),
\* the processing flag of the queue is false.
C16_FlagClearedAfterProcessIssue == LoopReturn => ~processing

\* the return that follows an unexpected throw of the pipeline
C16_Witness == LoopReturn /\ ret.kind = "Threw" /\ ~processing

\* C17: an unexpected throw of the pipeline inside the loop is a terminal
\* failure: the issue is reported to the tracker client as processed and is
\* dequeued, and the loop goes on (it re-arms its timer while running).
C17_UnexpectedThrowIsTerminal ==
  ( LoopReturn /\ ret.kind = "Threw" ) =>
    /\ cycle.marked = ret.issue
    /\ cycle.dequeued = ret.issue
    /\ ret.issue \in processedIssues
    /\ ~Includes(queue, ret.issue)
    /\ isRunning => ret.caller \in timers

\* the throw on the first of two queued issues, the loop still running
C17_Witness ==
  /\ LoopReturn
  /\ ret.kind = "Threw"
  /\ isRunning
  /\ queue # << >>

\* C18: markIssueAsProcessed is called for every pipeline invocation that
\* ends in a terminal Failure and for none that ends in NeedsResume.
C18_NotifiedOnFailureOnly ==
  LoopReturn =>
    /\ ret.kind = "Failure" => cycle.marked = ret.issue
    /\ ret.kind = "NeedsResume" => cycle.marked = 0

\* a Failure of an invocation that had resumed after a pause
C18_Witness ==
  /\ LoopReturn
  /\ ret.kind = "Failure"
  /\ cycle.marked = ret.issue
  /\ ret.at = "COMMIT_PUSH"

\* C19: after any sequence of start and stop calls at most one timer chain
\* of processNext is active: at most one of its timers is pending.
C19_AtMostOneTimerChain == Cardinality(timers) <= 1

\* C20: while the loop is stopped no pipeline invocation begins.
C20_NoInvocationWhileStopped == started # 0 => isRunning

\* stop() was called during a cycle: the cycle has returned, the issue is
\* still queued, the loop is stopped and nothing has begun
C20_Witness ==
  /\ ~isRunning
  /\ LoopReturn
  /\ ret.kind = "NeedsResume"
  /\ queue # << >>
  /\ started = 0

\* the number of entries of the queue that carry issue id i
Entries(q, i) == Cardinality({ k \in 1..Len(q) : q[k] = i })

\* C21: after any sequence of enqueue, dequeue and remove calls the queue
\* holds at most one entry per issue id (so a batch that names one issue
\* twice adds it once).
C21_OneEntryPerIssue == \A i \in Issues : Entries(queue, i) <= 1

\* an issue that left the queue and was enqueued again, behind another one
C21_Witness ==
  /\ Len(queue) = 2
  /\ Len(arrived) = 4
  /\ queue[2] = arrived[1]

\* the last n entries of a sequence
Suffix(seq, n) == SubSeq(seq, Len(seq) - n + 1, Len(seq))

\* C22: under any mix of enqueue and dequeue calls the queue is the tail end
\* of the sequence of entries in the order they were appended; dequeue has
\* returned the entry just before that tail (the oldest that remained) and
\* peek returns the first entry of the tail.
C22_FifoOrder ==
  /\ queue = Suffix(arrived, Len(queue))
  /\ cycle.dequeued # 0 =>
       cycle.dequeued = arrived[Len(arrived) - Len(queue)]
  /\ queue # << >> => peek(queue) = arrived[Len(arrived) - Len(queue) + 1]

\* the second dequeue after an enqueue that came between the two
C22_Witness ==
  /\ Len(arrived) = 3
  /\ Len(queue) = 1
  /\ cycle.dequeued = arrived[2]
  /\ peek(queue) = arrived[3]

\* C23: a process call that finds the record of its issue unparsable is not
\* failed by it and starts from scratch: it works on a fresh state
\* (BRANCH_CREATION, no completed step, retryCount 0) and invokes the
\* branch-creation action first.
C23_UnparsableRecordRestarts ==
  [][ \A i \in Issues :
        ( ParseThrows(store, i) /\ started' = i ) =>
          /\ inv'[Direct].state = InitialState(i, MainBranch)
          /\ act'.step = "BRANCH_CREATION" ]_vars

\* a call that begins at branch creation on an issue that has been paused
\* and has had no terminal outcome since: its record was lost to damage
C23_Witness ==
  /\ started # 0
  /\ throttleRun[started] > 0
  /\ act.step = "BRANCH_CREATION"
  /\ store[started] = InitialState(started, MainBranch)

\* C24: no operation of the state store raises to its caller, whether a
\* read, a write or a delete failed, and cleanupState of an absent record
\* returns leaving it absent.
C24_StoreNeverRaises ==
  /\ ret.kind # "Raised"
  /\ ( ret.at = "cleanupState" /\ ~ret.state.exists ) =>
       ( ret.kind = "Returned" /\ ~store[ret.issue].exists )

\* updateStep on a record it could load and could not write back
C24_Witness ==
  /\ ret.kind = "Returned"
  /\ ret.at = "updateStep"
  /\ ~diskOk
  /\ ret.state.exists
  /\ ~ret.state.corrupt
  /\ store[ret.issue] = ret.state

\* C25: resumeIssue on an issue that has no persisted state returns Failure
\* with the reason `no processing state found`, invokes no action and
\* creates no state record.
C25_ResumeWithoutStateFails ==
  [][ \A i \in Issues :
        ( event'.call = "resume" /\ event'.issue = i
          /\ ~loadState(store, i).exists ) =>
            /\ ret'.kind = "Failure"
            /\ ret'.issue = i
            /\ ret'.reason = "no processing state found"
            /\ act' = NoAct
            /\ inv'[Direct].pc = "idle"
            /\ store' = store ]_vars

\* resumeIssue on an issue whose work had ended, so that its state is gone
C25_Witness ==
  /\ event.call = "resume"
  /\ event.issue \in outcomes
  /\ ret.kind = "Failure"
  /\ ret.reason = "no processing state found"
  /\ ~store[event.issue].exists

\* C26: process and resumeIssue return one of Success, NeedsResume and
\* Failure and never raise; the result is NeedsResume exactly when the
\* awaited action raised the rate-limit error, and an action that failed in
\* any other way, once it is not tried again, gives a Failure with a reason.
C26_OutcomeIsOneOfThree ==
  /\ ret.kind \in { "none", "Success", "NeedsResume", "Failure" }
  /\ ( event.call # "none" \/ event.settled # "none" ) =>
       ( ret.kind # "none" \/ inv[Direct].pc \in WorkSteps )
  /\ ret.kind = "NeedsResume" <=> event.settled = "throttled"
  /\ ( event.settled \in { "rejected", "nochanges" }
       /\ inv[Direct].pc = "idle" ) =>
         ( ret.kind = "Failure" /\ ret.reason # "none" )

\* the last attempt of the PR-creation action failed, in a call that had
\* resumed after a pause
C26_Witness ==
  /\ event.settled = "rejected"
  /\ ret.kind = "Failure"
  /\ ret.at = "PR_CREATION"
  /\ ret.reason = "processing error"
  /\ trail[ret.issue] # "none"

\* C27: a process call on an issue that has completed and whose state has
\* been deleted starts from a fresh state (BRANCH_CREATION, no completed
\* step, retryCount 0) with the branch-creation action, and the next
\* Success of the issue comes after every step action was invoked again.
C27_CompletedIssueStartsAfresh ==
  [][ \A i \in Issues :
        /\ ( i \in journal.completed /\ ~store[i].exists
             /\ event'.call = "process" /\ event'.issue = i ) =>
               /\ inv'[Direct].state = InitialState(i, MainBranch)
               /\ store'[i] = InitialState(i, MainBranch)
               /\ act'.step = "BRANCH_CREATION"
        /\ ( i \in journal.completed /\ ret'.kind = "Success"
             /\ ret'.issue = i ) =>
               \A s \in WorkSteps : ret'.invoked[s] >= 1 ]_vars

\* the second run of a completed issue has reached PR creation, each of the
\* five actions invoked once in it
C27_Witness ==
  /\ act.step = "PR_CREATION"
  /\ act.issue \in journal.completed
  /\ \A s \in WorkSteps : invoked[act.issue][s] = 1

\* C30: the action of a step is invoked only when the action of every
\* earlier step has been invoked and has completed successfully, within the
\* call or in an earlier call on the same state.
C30_StepsInOrder ==
  act.step # "none" =>
    \A j \in 1..(StepIndex(act.step) - 1) :
      /\ Includes(inv[act.caller].state.completedSteps, StepOrder[j])
      /\ invoked[act.issue][StepOrder[j]] >= 1

\* a call that resumes a twice-paused issue and invokes commit/push first
C30_Witness ==
  /\ started # 0
  /\ act.step = "COMMIT_PUSH"
  /\ throttleRun[started] = 2

C29_FailedStartLeavesNothingRunning ==
  orch.outcome = "rejected" =>
    /\ ~orch.isRunning
    /\ ~orch.polling /\ ~orch.pollTimer
    /\ ~orch.looping /\ ~orch.loopTimer
    /\ ~orch.monitoring /\ ~orch.monitorTimer
    /\ orch.stray = 0

\* the monitor failed to start after the loop had begun an invocation
C29_Witness ==
  /\ orch.outcome = "rejected"
  /\ orch.failedAt = "monitor"
  /\ orch.loopCycle
  /\ queue # << >>

\* C31: getAssignedIssues returns no issue id twice, in one poll or across
\* polls, and returns no id whose invocation has had an outcome (the ids
\* passed to markIssueAsProcessed are among those); no issue is enqueued a
\* second time.
C31_DiscoveredOnce ==
  /\ [][ \A k \in 1..Len(cycle'.found) :
           /\ ~Includes(arrived, cycle'.found[k])
           /\ cycle'.found[k] \notin outcomes
           /\ \A j \in 1..(k - 1) : cycle'.found[j] # cycle'.found[k] ]_vars
  /\ [](\A i \in Issues : Entries(arrived, i) <= 1)

\* the tracker lists again an issue that was dequeued after its Failure was
\* reported, together with a new one: only the new one is returned
C31_Witness ==
  \E i \in cycle.reported :
    /\ i \in outcomes
    /\ i \in processedIssues
    /\ ~Includes(queue, i)
    /\ ~store[i].exists
    /\ Entries(arrived, i) = 1
    /\ Len(cycle.found) = 1
    /\ cycle.found[1] # i

\* the steps the persisted record of issue i lists as completed
Recorded(S, i) == IF S[i].exists THEN Range(S[i].completedSteps) ELSE { }

\* C32: a step enters the persisted completedSteps only in the step of the
\* program in which its awaited action has resolved; when the action of a
\* step is invoked the persisted state already has every earlier step as
\* completed and that step as currentStep; and no persisted state lists a
\* step whose action is still awaited.
C32_RecordedAfterActionOnly ==
  /\ [][ /\ \A i \in Issues :
            \A s \in Recorded(store', i) \ Recorded(store, i) :
              /\ event'.settled = "resolved"
              /\ event'.issue = i
              /\ inv[Direct].issue = i
              /\ inv[Direct].pc = s
         /\ act'.step # "none" =>
              /\ store'[act'.issue].exists
              /\ store'[act'.issue].currentStep = act'.step
              /\ \A j \in 1..(StepIndex(act'.step) - 1) :
                   StepOrder[j] \in Recorded(store', act'.issue) ]_vars
  /\ [](inv[Direct].pc \in WorkSteps =>
          inv[Direct].pc \notin Recorded(store, inv[Direct].issue))

\* implementation has just resolved in a call that resumed after a pause:
\* it is recorded and change detection is invoked
C32_Witness ==
  /\ event.settled = "resolved"
  /\ act.step = "CHANGE_DETECTION"
  /\ store[act.issue].completedSteps = Prefix(2)
  /\ store[act.issue].retryCount = 1

\* C33: within one call the action of an agent step is invoked at most 3
\* times; a rejection other than throttling on the first or second attempt
\* has the same action invoked again and returns nothing, one on the third
\* attempt returns Failure, and no Failure at an agent step is returned
\* otherwise; an attempt that resolves, the second and third included, has
\* the step completed and the call go on to the next step.
C33_ThreeAttemptsPerCall ==
  /\ [](inv[Direct].attempt <= 3)
  /\ [][ /\ ( event'.settled = "rejected" /\ inv[Direct].pc \in AgentSteps ) =>
              IF inv[Direct].attempt < 3
              THEN /\ ret'.kind = "none"
                   /\ act'.step = inv[Direct].pc
                   /\ inv'[Direct].attempt = inv[Direct].attempt + 1
              ELSE ret'.kind = "Failure" /\ act' = NoAct
         /\ ( ret'.kind = "Failure" /\ ret'.at \in AgentSteps ) =>
              ( event'.settled = "rejected" /\ inv[Direct].attempt = 3 )
         /\ ( event'.settled = "resolved" /\ inv[Direct].pc \in AgentSteps ) =>
              /\ ret'.kind \in { "none", "Success" }
              /\ ret'.kind = "none" =>
                   /\ Includes(inv'[Direct].state.completedSteps,
                               inv[Direct].pc)
                   /\ StepIndex(act'.step) = StepIndex(inv[Direct].pc) + 1
       ]_vars

\* the Failure that follows three failed attempts at implementation
C33_Witness ==
  /\ ret.kind = "Failure"
  /\ ret.at = "IMPLEMENTATION"
  /\ event.settled = "rejected"
  /\ ret.invoked["IMPLEMENTATION"] = 3
  /\ trail[ret.issue] = "other"

\* C34: a persisted record carries the id of its issue and the branch name
\* made for it, and as long as the record exists its issueId, branchName
\* and baseBranch stay what they were, through every advance and every
\* throttling pause and whatever base branch later calls pass.
C34_IdentityFieldsKept ==
  /\ [](\A i \in Issues :
          store[i].exists =>
            /\ store[i].issueId = i
            /\ store[i].branchName = generateBranchName(i)
            /\ store[i].baseBranch \in BaseBranches)
  /\ [][ \A i \in Issues :
           ( store[i].exists /\ store'[i].exists ) =>
             /\ store'[i].issueId = store[i].issueId
             /\ store'[i].branchName = store[i].branchName
             /\ store'[i].baseBranch = store[i].baseBranch ]_vars

\* a process call that passes main finds a record created for base branch
\* develop, advanced to PR creation and paused twice, and goes on from it
C34_Witness ==
  /\ event.call = "process"
  /\ event.base = "main"
  /\ act.step = "PR_CREATION"
  /\ store[event.issue].baseBranch = "develop"
  /\ store[event.issue].retryCount = 2
  /\ inv[Direct].state.baseBranch = "develop"

\* a call on a fresh issue has returned because its first agent invocation
\* was throttled: branch creation and implementation were invoked once each
\* and nothing else
FirstAgentCallThrottled ==
  /\ ret.kind = "NeedsResume"
  /\ ret.invoked = [ ZeroCounts EXCEPT !["BRANCH_CREATION"] = 1,
                                       !["IMPLEMENTATION"] = 1 ]

\* the issue i was paused by that throttling and by nothing else since
PausedOnceAtFirstAgentCall(i) ==
  /\ trail[i] = "IMPLEMENTATION"
  /\ throttleRun[i] = 1
  /\ invoked[i]["BRANCH_CREATION"] = 1

C36_NoCleanupWithoutBranch ==
  ( ret.discards > 0 \/ ret.deletes > 0 ) =>
    ret.at \in WorkSteps \ { "BRANCH_CREATION" }
\* C37: a call of the pipeline returns Success only if, since the state of
\* its issue was created, the action of each of the five steps has
\* succeeded: no step is skipped, whatever persisted state the call began
\* from
C37_SuccessAfterAllFive ==
  ( ret.kind = "Success" /\ ret.caller = Direct ) => ret.resolved = WorkSteps

\* a call that began from a state persisted at COMMIT_PUSH returns Success
C37_Witness ==
  /\ ret.kind = "Success"
  /\ ret.caller = Direct
  /\ trail[ret.issue] = "COMMIT_PUSH"
  /\ ret.invoked["BRANCH_CREATION"] = 1
  /\ ret.invoked["COMMIT_PUSH"] = 2
  /\ ret.resolved = WorkSteps

\* C38: while the processing loop runs, every persisted state record belongs
\* to an issue that is in the queue: an issue is dequeued only after its
\* record has been removed, and no invocation leaves a record behind for an
\* issue that is no longer queued
C38_RecordsOfQueuedIssuesOnly ==
  \A i \in Issues : store[i].exists => Includes(queue, i)

\* C39: if stop() of the orchestrator is called while its start() is still
\* awaiting the first poll, then once both calls have returned nothing is
\* running: no poll timer, no processing loop, no status monitor, and
\* isActive() is false
C39_StopDuringStartStopsAll ==
  [][ ( orch.pc = "polling" /\ ~orch.isRunning /\ orch'.pc = "idle" ) =>
        /\ ~orch'.isRunning
        /\ ~orch'.polling /\ ~orch'.pollTimer
        /\ ~orch'.looping /\ ~orch'.loopTimer /\ ~orch'.loopCycle
        /\ ~orch'.monitoring /\ ~orch'.monitorTimer ]_vars

\* an issue the loop has paused: it is at the head of the queue, the last
\* invocation made for it was throttled and none is in flight for it
PausedAtHead(i) ==
  /\ queue # << >>
  /\ Head(queue) = i
  /\ throttleRun[i] > 0
  /\ \A c \in Callers : inv[c].issue # i

\* C40: throttling retries are unbounded.  Whatever retryCount has been
\* reached, a throttled invocation of the loop ends in NeedsResume, never in
\* Failure, and removes nothing from the queue; an issue paused at the head
\* of the queue stays there until it is started again, and no other issue
\* is started meanwhile
C40_ThrottledHeadBlocksQueue ==
  /\ []( ( LoopReturn /\ event.settled = "throttled" ) =>
           /\ ret.kind = "NeedsResume"
           /\ cycle.dequeued = 0
           /\ cycle.marked = 0 )
  /\ [][ \A i \in Issues :
           PausedAtHead(i) =>
             /\ queue' # << >>
             /\ Head(queue') = i
             /\ started' \in { 0, i } ]_vars

====
